---- MODULE Spec2Model ----
(***************************************************************************)
(* A model of the obs-rvc real-time voice conversion filter                *)
(* (src/src/lib.rs): the geometry derived from the settings, the engine    *)
(* state behind the FairMutex, the three queues with their locks, and the  *)
(* three actors: the host's audio callback (filter_audio), the worker      *)
(* thread (thread_loop / process_one_frame) and the settings update.       *)
(*                                                                         *)
(* Durations are kept in hundredths of a second (the step of the property  *)
(* sliders), so 0.30 s is 30.  A Vec<f32> / Array1<f32> is kept in         *)
(* run-length form: a sequence of runs <<count, value>>, no run empty, no  *)
(* two neighbours of the same value.  Value 0 is the sample 0.0.           *)
(***************************************************************************)
EXTENDS Integers, Sequences, FiniteSets, TLC

(***************************************************************************)
(* Bounds of the model                                                     *)
(***************************************************************************)
MaxCalls == 2
MaxUpdates == 1
MaxGeomUpdates == 2
MaxFrames == 5
MaxFrameUpdates == 1

(***************************************************************************)
(* Program constants                                                       *)
(***************************************************************************)
DurationScale == 100
Rate16kPerZc == 160
SolaBufferMaxZc == 4

(***************************************************************************)
(* Buffers in run-length form                                              *)
(***************************************************************************)
\* The helpers are functions, applied to values, with an operator in front
\* of each.
Runs == Seq(Int \X Int)

RLenOf[b \in Runs] == IF b = <<>> THEN 0 ELSE b[1][1] + RLenOf[Tail(b)]

RLen(b) == RLenOf[b]

RConsOf[c \in Int, v \in Int, b \in Runs] ==
    IF c = 0 THEN b
    ELSE IF b # <<>> /\ b[1][2] = v
         THEN <<<<c + b[1][1], v>>>> \o Tail(b)
         ELSE <<<<c, v>>>> \o b

\* b with c copies of v put in front.
RCons(c, v, b) == RConsOf[c, v, b]

RCatOf[a \in Runs, b \in Runs] ==
    IF a = <<>> THEN b ELSE RConsOf[a[1][1], a[1][2], RCatOf[Tail(a), b]]

RCat(a, b) == RCatOf[a, b]

\* vec![0_f32; n]
RZeros(n) == RCons(n, 0, <<>>)

RDropOf[b \in Runs, k \in Int] ==
    IF k = 0 \/ b = <<>> THEN b
    ELSE IF b[1][1] <= k THEN RDropOf[Tail(b), k - b[1][1]]
         ELSE <<<<b[1][1] - k, b[1][2]>>>> \o Tail(b)

RDrop(b, k) == RDropOf[b, k]

RTakeOf[b \in Runs, k \in Int] ==
    IF k = 0 \/ b = <<>> THEN <<>>
    ELSE IF b[1][1] <= k THEN RConsOf[b[1][1], b[1][2], RTakeOf[Tail(b), k - b[1][1]]]
         ELSE <<<<k, b[1][2]>>>>

RTake(b, k) == RTakeOf[b, k]

\* b[from .. from + n), positions counted from 0.
RSlice(b, from, n) == RTake(RDrop(b, from), n)

RAllZero(b) == \A i \in 1..Len(b) : b[i][2] = 0

RFromSeqOf[s \in Seq(Int)] ==
    IF s = <<>> THEN <<>> ELSE RConsOf[1, s[1], RFromSeqOf[Tail(s)]]

RFromSeq(s) == RFromSeqOf[s]

\* Vec::resize(n, 0.0): truncate, or extend with zeros at the end.
VecResize(b, n) ==
    IF n <= RLen(b) THEN RTake(b, n) ELSE RCat(b, RZeros(n - RLen(b)))

\* slice::fill(0.0): same length, every element zero.
VecFillZero(b) == RZeros(RLen(b))

Min(a, b) == IF a <= b THEN a ELSE b

RECURSIVE Gcd(_, _)
Gcd(a, b) == IF b = 0 THEN a ELSE Gcd(b, a % b)

\* ceil(a / b) for b > 0
CeilDiv(a, b) == (a + b - 1) \div b

(***************************************************************************)
(* Geometry                                                                *)
(***************************************************************************)
\* f64::round of n/d (n >= 0, d > 0): to nearest, halves away from zero.
RoundDiv(n, d) == (2 * n + d) \div (2 * d)

\* (duration * sample_rate as f64 / zc as f64).round() as usize, the
\* duration h in hundredths of a second.
ZcUnits(h, sample_rate, zc) == RoundDiv(h * sample_rate, DurationScale * zc)

\* create, lines 172-196.
CreateGeometry(sample_rate, model_output_sample_rate, sample_length, crossfade_length, extra_inference_time) ==
    LET zc == sample_rate \div 100
        sample_frame_time == ZcUnits(sample_length, sample_rate, zc)
        sample_frame_size == sample_frame_time * zc
        sample_frame_16k == sample_frame_time * Rate16kPerZc
        crossfade_frame_size == ZcUnits(crossfade_length, sample_rate, zc) * zc
        sola_buffer_frame_size == Min(crossfade_frame_size, SolaBufferMaxZc * zc)
        sola_search_frame_size == zc
        extra_frame_size == ZcUnits(extra_inference_time, sample_rate, zc) * zc
        input_buffer_size == extra_frame_size + crossfade_frame_size
                               + sola_search_frame_size + sample_frame_size
        input_buffer_16k_size == (Rate16kPerZc * input_buffer_size) \div zc
        model_return_length ==
            (sample_frame_size + sola_buffer_frame_size + sola_search_frame_size) \div zc
        model_return_size == model_return_length * (model_output_sample_rate \div 100)
    IN [ sample_frame_size |-> sample_frame_size,
         sample_frame_16k |-> sample_frame_16k,
         crossfade_frame_size |-> crossfade_frame_size,
         sola_buffer_frame_size |-> sola_buffer_frame_size,
         sola_search_frame_size |-> sola_search_frame_size,
         extra_frame_size |-> extra_frame_size,
         model_return_length |-> model_return_length,
         model_return_size |-> model_return_size,
         input_buffer_size |-> input_buffer_size,
         input_buffer_16k_size |-> input_buffer_16k_size ]

\* lines 443 and 446 without the detour through zc units: the duration
\* times the rate, rounded.
UpdateFrameSizeUnaligned(duration, sample_rate, zc) ==
    RoundDiv(duration * sample_rate, DurationScale)

\* update, lines 443 and 446: a duration as a whole number of zc units.
UpdateFrameSize(duration, sample_rate, zc) ==
    ZcUnits(duration, sample_rate, zc) * zc

\* line 444 with the crossfade capped at 2 zc units.
UpdateSolaBufferFrameSizeShort(crossfade_frame_size, zc) ==
    Min(crossfade_frame_size, 2 * zc)

\* update, line 444.
UpdateSolaBufferFrameSize(crossfade_frame_size, zc) ==
    Min(crossfade_frame_size, SolaBufferMaxZc * zc)

\* update, lines 438-464.

UpdateGeometry(sample_rate, model_output_sample_rate, sample_length, crossfade_length, extra_inference_time) ==
    LET zc == sample_rate \div 100
        sample_frame_time == ZcUnits(sample_length, sample_rate, zc)
        sample_frame_size == sample_frame_time * zc
        sample_frame_16k == sample_frame_time * Rate16kPerZc
        crossfade_frame_size == UpdateFrameSize(crossfade_length, sample_rate, zc)
        sola_buffer_frame_size == UpdateSolaBufferFrameSize(crossfade_frame_size, zc)
        sola_search_frame_size == zc
        extra_frame_size == UpdateFrameSize(extra_inference_time, sample_rate, zc)
        model_return_length ==
            (sample_frame_size + sola_buffer_frame_size + sola_search_frame_size) \div zc
        model_return_size == model_return_length * (model_output_sample_rate \div 100)
        input_buffer_size == extra_frame_size + crossfade_frame_size
                               + sola_search_frame_size + sample_frame_size
        input_buffer_16k_size == (Rate16kPerZc * input_buffer_size) \div zc
    IN [ sample_frame_size |-> sample_frame_size,
         sample_frame_16k |-> sample_frame_16k,
         crossfade_frame_size |-> crossfade_frame_size,
         sola_buffer_frame_size |-> sola_buffer_frame_size,
         sola_search_frame_size |-> sola_search_frame_size,
         extra_frame_size |-> extra_frame_size,
         model_return_length |-> model_return_length,
         model_return_size |-> model_return_size,
         input_buffer_size |-> input_buffer_size,
         input_buffer_16k_size |-> input_buffer_16k_size ]

(***************************************************************************)
(* Resamplers (rubato FftFixedInOut): a fixed input block and a fixed      *)
(* output block, both derived once, in new(), from the two rates and the   *)
(* requested input block size.                                             *)
(***************************************************************************)
FftFixedInOutNew(fs_in, fs_out, chunk_size_in) ==
    LET g == Gcd(fs_in, fs_out)
        min_in == fs_in \div g
        min_out == fs_out \div g
        blocks == CeilDiv(chunk_size_in, min_in)
    IN [ fs_in |-> fs_in, fs_out |-> fs_out,
         chunk_size_in |-> blocks * min_in,
         chunk_size_out |-> blocks * min_out ]

\* upsampler.output_frames_max()
OutputFramesMax(r) == r.chunk_size_out

(***************************************************************************)
(* Fade windows: linspace(0, 1, n) mapped through sin^2(0.5 pi x), and its *)
(* pointwise complement.  A window is its length and its shape.            *)
(***************************************************************************)
FadeInWindow(n) == [ n |-> n, shape |-> "sin2" ]

\* line 202 without the complement: the fade-out window is the fade-in one.
FadeOutWindowCopy(w) == w

FadeOutWindow(w) == [ n |-> w.n, shape |-> "one_minus_sin2" ]

\* The elements of a window, in thousandths: 1.0 and 0.5 * PI,
FadeOne == 1000
HalfPi == 1571

\* linspace(0.0, 1.0, n)[i] * 0.5 * PI (a single point sits at 0.0),
FadeAngle(n, i) == IF n <= 1 THEN 0 ELSE (HalfPi * i) \div (n - 1)

\* f32::sin by its series, each power scaled back as it is formed,
SinFixed(y) ==
    LET y2 == (y * y) \div FadeOne
        p3 == (y * y2) \div FadeOne
        p5 == (p3 * y2) \div FadeOne
        p7 == (p5 * y2) \div FadeOne
    IN y - p3 \div 6 + p5 \div 120 - p7 \div 5040

\* sin(x * 0.5 * PI).powi(2),
FadeInValue(n, i) ==
    LET sn == SinFixed(FadeAngle(n, i)) IN (sn * sn) \div FadeOne

\* and element i of a window: the fade-out one holds 1.0 - x.
WindowValue(win, i) ==
    IF win.shape = "sin2" THEN FadeInValue(win.n, i)
    ELSE FadeOne - FadeInValue(win.n, i)

(***************************************************************************)
(* Settings and the model path                                             *)
(***************************************************************************)
NoPath == "None"

\* get_path_from_settings!(settings, name): Some(path) when the setting is
\* a non-empty path of an existing file.  The only existing file is "m.onnx".
PathExists(p) == p = "m.onnx"
PathFromSettings(p) == IF p # "" /\ PathExists(p) THEN p ELSE NoPath

\* get_path_from_settings!(field, settings, name): whether the field changed.
PathChanged(field, p) == field = NoPath \/ field # p
PathAfterUpdate(field, p) ==
    IF PathChanged(field, p) THEN PathFromSettings(p) ELSE field

\* RvcInfer::load_model / unload_model as the filter sees them.
EngineAfterLoad(engine, ok) == IF ok THEN "loaded" ELSE "unloaded"

(***************************************************************************)
(* The engine state (RvcInferenceState)                                    *)
(***************************************************************************)
\* create, lines 139-247.
CreateState(sample_rate, settings, load_ok) ==
    LET model_path == PathFromSettings(settings.model_path)
        g == CreateGeometry(sample_rate, settings.dest_sample_rate,
                            settings.sample_length, settings.fade_length,
                            settings.extra_inference_time)
        fade_in_window == FadeInWindow(g.sola_buffer_frame_size)
        upsampler == FftFixedInOutNew(settings.dest_sample_rate, sample_rate,
                                      g.model_return_size)
        downsampler == FftFixedInOutNew(sample_rate, 16000, g.sample_frame_size)
    IN [ sample_rate |-> sample_rate,
         model_path |-> model_path,
         model_output_sample_rate |-> settings.dest_sample_rate,
         pitch_shift |-> settings.pitch_shift,
         resonance_shift |-> settings.resonance_shift,
         index_rate |-> settings.index_rate,
         rms_mix_rate |-> settings.loudness_factor,
         sample_length |-> settings.sample_length,
         crossfade_length |-> settings.fade_length,
         extra_inference_time |-> settings.extra_inference_time,
         sample_frame_size |-> g.sample_frame_size,
         sample_frame_16k |-> g.sample_frame_16k,
         crossfade_frame_size |-> g.crossfade_frame_size,
         sola_buffer_frame_size |-> g.sola_buffer_frame_size,
         sola_search_frame_size |-> g.sola_search_frame_size,
         extra_frame_size |-> g.extra_frame_size,
         model_return_length |-> g.model_return_length,
         model_return_size |-> g.model_return_size,
         input_buffer |-> RZeros(g.input_buffer_size),
         input_buffer_16k |-> RZeros(g.input_buffer_16k_size),
         sola_buffer |-> RZeros(g.sola_buffer_frame_size),
         output_buffer |-> RZeros(OutputFramesMax(upsampler)),
         fade_in_window |-> fade_in_window,
         fade_out_window |-> FadeOutWindow(fade_in_window),
         upsampler |-> upsampler,
         downsampler |-> downsampler,
         engine |-> IF model_path # NoPath
                    THEN EngineAfterLoad("unloaded", load_ok) ELSE "unloaded" ]

\* lines 384-410 with the flag set whatever the settings are.
RecalculateAlways(st, settings) == TRUE

\* update, lines 384-410: recalculate_input_buffer.
RecalculateInputBuffer(st, settings) ==
    \/ st.sample_length # settings.sample_length
    \/ st.crossfade_length # settings.fade_length
    \/ st.extra_inference_time # settings.extra_inference_time
    \/ st.model_output_sample_rate # settings.dest_sample_rate

\* update, lines 352-427: every setting is stored; the model is (un)loaded
\* when its path changed.
ApplySettings(st, settings, sample_rate, load_ok) ==
    LET model_changed == PathChanged(st.model_path, settings.model_path)
        model_path == PathAfterUpdate(st.model_path, settings.model_path)
    IN [ st EXCEPT
           !.sample_rate = sample_rate,
           !.model_path = model_path,
           !.pitch_shift = settings.pitch_shift,
           !.resonance_shift = settings.resonance_shift,
           !.index_rate = settings.index_rate,
           !.rms_mix_rate = settings.loudness_factor,
           !.sample_length = settings.sample_length,
           !.crossfade_length = settings.fade_length,
           !.extra_inference_time = settings.extra_inference_time,
           !.model_output_sample_rate = settings.dest_sample_rate,
           !.engine = IF ~model_changed THEN st.engine
                      ELSE IF model_path # NoPath
                           THEN EngineAfterLoad(st.engine, load_ok)
                           ELSE "unloaded" ]

\* update, lines 473-474: the two sliding input buffers after the resize.
UpdateInputBuffer(buf, size) == VecFillZero(VecResize(buf, size))
UpdateInputBuffer16k(buf, size) == VecFillZero(VecResize(buf, size))

\* update, lines 430-474: the geometry, the sliding buffers and the windows
\* are rebuilt from the stored settings and the host rate just read.
Reconfigure(st, sample_rate) ==
    LET g == UpdateGeometry(sample_rate, st.model_output_sample_rate,
                            st.sample_length, st.crossfade_length,
                            st.extra_inference_time)
        fade_in_window == FadeInWindow(g.sola_buffer_frame_size)
    IN [ st EXCEPT
           !.sample_frame_size = g.sample_frame_size,
           !.sample_frame_16k = g.sample_frame_16k,
           !.crossfade_frame_size = g.crossfade_frame_size,
           !.sola_buffer_frame_size = g.sola_buffer_frame_size,
           !.sola_search_frame_size = g.sola_search_frame_size,
           !.extra_frame_size = g.extra_frame_size,
           !.model_return_length = g.model_return_length,
           !.model_return_size = g.model_return_size,
           !.input_buffer = UpdateInputBuffer(st.input_buffer, g.input_buffer_size),
           !.input_buffer_16k =
               UpdateInputBuffer16k(st.input_buffer_16k, g.input_buffer_16k_size),
           !.fade_in_window = fade_in_window,
           !.fade_out_window = FadeOutWindow(fade_in_window) ]

\* lines 352-474 with a load error that returns from update (as `?` would)
\* once the path is stored.
UpdateStateAbortOnLoadError(st, settings, sample_rate, load_ok) ==
    LET applied == ApplySettings(st, settings, sample_rate, load_ok)
        failed == /\ PathChanged(st.model_path, settings.model_path)
                  /\ applied.model_path # NoPath
                  /\ ~load_ok
    IN IF failed
       THEN [st EXCEPT !.sample_rate = sample_rate,
                       !.model_path = applied.model_path]
       ELSE IF RecalculateInputBuffer(st, settings)
            THEN Reconfigure(applied, sample_rate)
            ELSE applied

\* lines 352-474 with the block of lines 430-485 run unconditionally.
UpdateStateAlwaysReconfigure(st, settings, sample_rate, load_ok) ==
    Reconfigure(ApplySettings(st, settings, sample_rate, load_ok), sample_rate)

\* update, lines 352-474: the engine state when the body has run.
UpdateState(st, settings, sample_rate, load_ok) ==
    LET applied == ApplySettings(st, settings, sample_rate, load_ok)
    IN IF RecalculateInputBuffer(st, settings)
       THEN Reconfigure(applied, sample_rate)
       ELSE applied

(***************************************************************************)
(* process_one_frame                                                       *)
(***************************************************************************)
RToSeqOf[b \in Runs] ==
    IF b = <<>> THEN <<>>
    ELSE [i \in 1..b[1][1] |-> b[1][2]] \o RToSeqOf[Tail(b)]

RToSeq(b) == RToSeqOf[b]

\* line 566 in place of line 567: the engine returns some signal.
InferOutputSignal == 1

\* line 567: the inference call is commented out; the model output is zeros.
InferOutput == 0

\* What a resampler makes of a block: silence stays silence, anything else
\* is some non-zero signal derived from the block.
FirstNonZeroOf[s \in Seq(Int)] ==
    IF s = <<>> THEN 0 ELSE IF s[1] # 0 THEN s[1] ELSE FirstNonZeroOf[Tail(s)]

FirstNonZero(s) == FirstNonZeroOf[s]

\* Resampler::process_into_buffer accepts the buffers when they are exactly
\* the resampler's blocks.
ResamplerExact(r, in_len, out_len) ==
    in_len = r.chunk_size_in /\ out_len = r.chunk_size_out

\* ... and rejects them for certain when either is shorter than its block;
\* longer buffers are accepted or rejected, depending on the library version.
ResamplerRejects(r, in_len, out_len) ==
    in_len < r.chunk_size_in \/ out_len < r.chunk_size_out

\* One sample of the crossfade, lines 598-603: out * fade_in + sola * fade_out
\* at index i of n (fade_in is 0 at index 0 and 1 at index n - 1).
BlendSample(o, sl, i, n) ==
    IF o = 0 /\ sl = 0 THEN 0
    ELSE IF i = 0 THEN sl
    ELSE IF i = n - 1 THEN o
    ELSE IF o # 0 THEN o ELSE sl

\* output[..n] *= fade_in; output[..n] += sola * fade_out
Crossfade(head, sola) ==
    LET a == RToSeq(head)
        b == RToSeq(sola)
    IN RFromSeq([i \in 1..Len(a) |-> BlendSample(a[i], b[i], i - 1, Len(a))])

\* lines 535-539 without the shift: the frame overwrites the tail and the
\* older samples stay where they are.
SlideInputBufferNoShift(buf, sample_frame_size, input_sample) ==
    RCat(RTake(buf, RLen(buf) - sample_frame_size), RFromSeq(input_sample))

\* lines 535-539: shift left by sample_frame_size, the new frame in the tail.
SlideInputBuffer(buf, sample_frame_size, input_sample) ==
    RCat(RDrop(buf, sample_frame_size), RFromSeq(input_sample))

\* lines 544-551: shift left by sample_frame_16k; the downsampler writes its
\* output block at the start of the freed tail.
SlideInputBuffer16k(buf, sample_frame_16k, written, value) ==
    LET keep == RLen(buf) - sample_frame_16k
        tail == RDrop(buf, keep)
    IN RCat(RDrop(buf, sample_frame_16k),
            RCat(RCons(written, value, <<>>), RDrop(tail, written)))

\* line 607: the samples after the emitted ones become the SOLA buffer.
NewSolaBuffer(view, sample_frame_size, sola_buffer_frame_size) ==
    RSlice(view, sample_frame_size, sola_buffer_frame_size)

\* line 610: the emitted chunk.
EmittedFrame(view, sample_frame_size) == RToSeq(RTake(view, sample_frame_size))

\* Whether process_one_frame panics for certain with this state and frame:
\* a slice out of range, arrays of unequal length combined, or a resampler
\* that rejects its buffers.
ProcessPanics(st, input_sample, sola_offset) ==
    LET sfs == st.sample_frame_size
        n == st.sola_buffer_frame_size
        out_len == RLen(st.output_buffer)
    IN \/ RLen(st.input_buffer) < sfs
       \/ Len(input_sample) # sfs
       \/ RLen(st.input_buffer_16k) < st.sample_frame_16k
       \/ ResamplerRejects(st.downsampler, Len(input_sample), st.sample_frame_16k)
       \/ ResamplerRejects(st.upsampler, st.model_return_size, out_len)
       \/ sola_offset + n > out_len
       \/ st.fade_in_window.n # n
       \/ RLen(st.sola_buffer) # st.fade_out_window.n
       \/ st.fade_out_window.n # n
       \/ sola_offset + sfs + n > out_len

\* Whether it may panic or not, depending on the resampler library.
ProcessMayPanic(st, input_sample) ==
    \/ ~ResamplerExact(st.downsampler, Len(input_sample), st.sample_frame_16k)
    \/ ~ResamplerExact(st.upsampler, st.model_return_size, RLen(st.output_buffer))

\* lines 535-539: the slice and the copy refuse a buffer shorter than a
\* frame and a frame of another length than the tail slot.
SlidePanics(st, input_sample) ==
    \/ RLen(st.input_buffer) < st.sample_frame_size
    \/ Len(input_sample) # st.sample_frame_size

\* line 544 alone: the 16 kHz buffer shifted, its tail not yet rewritten.
ShiftInputBuffer16k(buf, sample_frame_16k) ==
    RCat(RDrop(buf, sample_frame_16k), RDrop(buf, RLen(buf) - sample_frame_16k))

\* The engine state a panic of process_one_frame leaves behind: the steps
\* before the first fallible call have run (lines 535-544), the arrays of
\* the output side are taken as they were.
StateAtPanic(st, input_sample) ==
    IF SlidePanics(st, input_sample)
    THEN st
    ELSE [ st EXCEPT
             !.input_buffer =
                 SlideInputBuffer(@, st.sample_frame_size, input_sample),
             !.input_buffer_16k =
                 IF RLen(@) < st.sample_frame_16k
                 THEN @ ELSE ShiftInputBuffer16k(@, st.sample_frame_16k) ]

\* lines 531-611, when it does not panic: the new engine state and the chunk.
ProcessOneFrame(st, input_sample, sola_offset) ==
    LET sfs == st.sample_frame_size
        n == st.sola_buffer_frame_size
        input_buffer == SlideInputBuffer(st.input_buffer, sfs, input_sample)
        input_buffer_16k ==
            SlideInputBuffer16k(st.input_buffer_16k, st.sample_frame_16k,
                                st.downsampler.chunk_size_out,
                                FirstNonZero(input_sample))
        upsampled ==
            RCat(RCons(st.upsampler.chunk_size_out, InferOutput, <<>>),
                 RDrop(st.output_buffer, st.upsampler.chunk_size_out))
        view == RDrop(upsampled, sola_offset)
        blended == RCat(Crossfade(RTake(view, n), st.sola_buffer), RDrop(view, n))
    IN [ state |-> [ st EXCEPT
                       !.input_buffer = input_buffer,
                       !.input_buffer_16k = input_buffer_16k,
                       !.output_buffer = RCat(RTake(upsampled, sola_offset), blended),
                       !.sola_buffer = NewSolaBuffer(blended, sfs, n) ],
         output_frame |-> EmittedFrame(blended, sfs) ]

(***************************************************************************)
(* Inputs of the concurrent model: host rates of 200 and 300 Hz (zc = 2    *)
(* and 3) keep every frame a few samples long.                             *)
(***************************************************************************)
HostRates == {200, 300}
FrameLens == {2}

BaseSettings ==
    [ model_path |-> "", pitch_shift |-> 12, resonance_shift |-> 7,
      index_rate |-> 0, loudness_factor |-> 50, sample_length |-> 1,
      fade_length |-> 1, extra_inference_time |-> 0, dest_sample_rate |-> 200 ]

SettingsSet ==
    { BaseSettings,
      [BaseSettings EXCEPT !.sample_length = 2],
      [BaseSettings EXCEPT !.fade_length = 2],
      [BaseSettings EXCEPT !.extra_inference_time = 1],
      [BaseSettings EXCEPT !.dest_sample_rate = 400],
      [BaseSettings EXCEPT !.pitch_shift = 0, !.index_rate = 50],
      [BaseSettings EXCEPT !.model_path = "m.onnx", !.resonance_shift = 0,
                           !.extra_inference_time = 1] }

CreateSettingsSet == { BaseSettings }

LoadOutcomes(settings) == IF settings.model_path = "" THEN {TRUE} ELSE BOOLEAN

\* The timestamp the host gives its k-th frame.
TimestampOf(k) == 10 * k

(***************************************************************************)
(* State                                                                   *)
(***************************************************************************)
VARIABLES
    state,            \* RvcInferenceState, behind shared_state.state
    state_lock,       \* holder of the FairMutex: "free", "worker", "update"
    running,          \* shared_state.running
    input,            \* shared_state.input
    output,           \* shared_state.output: samples <<value, serial>>
    timestamps,       \* shared_state.timestamps
    input_lock,       \* holder of the input Mutex
    output_lock,      \* holder of the output Mutex
    timestamps_lock,  \* holder of the timestamps Mutex
    has_input,        \* a notification of the Condvar is pending for the waiter
    buffer_changed,   \* shared_state.buffer_changed
    thread_handle,    \* RvcInferenceFilter.thread_handle: "none", "some", "taken"
    cb,               \* the audio thread inside filter_audio
    w,                \* the worker thread inside thread_loop
    u,                \* the thread inside update
    d,                \* the thread inside drop
    h                 \* history: what has been pushed, drained and reported;
                      \* processed counts the frames since the geometry was
                      \* last computed, frames all of them; in_mark and
                      \* out_mark are the last sample pushed before the last
                      \* clear of the input and of the output queue; geom_rate
                      \* is the host rate of the last geometry computation,
                      \* drop_pc where the worker was when drop began;
                      \* last_settings holds the settings of the last
                      \* update, last_recalculate its
                      \* recalculate_input_buffer, and repeated tells that
                      \* it had the settings of the update before it;
                      \* slid holds the samples process_one_frame moved
                      \* into the sliding input buffer since the geometry
                      \* was last computed

vars == << state, state_lock, running, input, output, timestamps, input_lock,
           output_lock, timestamps_lock, has_input, buffer_changed,
           thread_handle, cb, w, u, d, h >>

shared == << running, input, output, timestamps, input_lock, output_lock,
             timestamps_lock, has_input, buffer_changed, thread_handle >>

\* Outside update its locals do not exist.
UpdateIdle ==
    [ pc |-> "idle", settings |-> BaseSettings, sample_rate |-> 0,
      load_ok |-> TRUE, recalculate |-> FALSE ]

InitRest(sample_rate) ==
    /\ state_lock = "free"
    /\ running = TRUE
    /\ input = <<>>
    /\ output = <<>>
    /\ timestamps = <<>>
    /\ input_lock = "free"
    /\ output_lock = "free"
    /\ timestamps_lock = "free"
    /\ has_input = FALSE
    /\ buffer_changed = FALSE
    /\ thread_handle = "none"
    /\ cb = [ pc |-> "idle", frame_len |-> 0, main_channel |-> <<>>,
              timestamp |-> 0, result |-> "none" ]
    /\ w = [ pc |-> "none", sample_frame_size |-> 0, input_sample |-> <<>>,
             output_frame |-> <<>>, timed_out |-> FALSE ]
    /\ u = UpdateIdle
    /\ d = "alive"
    /\ h = [ calls |-> 0, updates |-> 0, reconfigured |-> FALSE,
             ts_pushed |-> <<>>, reported |-> <<>>, discarded |-> 0,
             in_pushed |-> <<>>, in_drained |-> <<>>,
             out_pushed |-> <<>>, out_drained |-> <<>>,
             in_mark |-> 0, out_mark |-> 0, processed |-> 0, frames |-> 0,
             geom_rate |-> sample_rate,
             drop_pc |-> "none",
             last_settings |-> {}, last_recalculate |-> FALSE,
             repeated |-> FALSE, slid |-> <<>> ]

Init ==
    \E sample_rate \in HostRates, settings \in CreateSettingsSet :
      \E load_ok \in LoadOutcomes(settings) :
        /\ state = CreateState(sample_rate, settings, load_ok)
        /\ InitRest(sample_rate)

\* An unlock that frees the lock and wakes nobody.
StateUnlockNoHandOver(by) == "free"

\* FairMutex::unlock: the lock goes straight to a thread parked on it.
StateUnlock(by) ==
    IF by = "worker" /\ u.pc = "parked" THEN "update"
    ELSE IF by = "update" /\ w.pc = "start_parked" THEN "worker"
    ELSE "free"

(***************************************************************************)
(* VecDeque operations                                                     *)
(***************************************************************************)
\* the first n elements (all of them when there are fewer)
SeqTake(q, n) == SubSeq(q, 1, Min(n, Len(q)))
\* drain(..n): what is left
SeqDrop(q, n) == SubSeq(q, Min(n, Len(q)) + 1, Len(q))

SeqMax(q) == IF q = <<>> THEN 0 ELSE CHOOSE x \in {q[i] : i \in 1..Len(q)} :
                                       \A j \in 1..Len(q) : q[j] <= x

(***************************************************************************)
(* filter_audio (the host's audio thread)                                  *)
(***************************************************************************)
\* The mono samples of the host's next frame: fresh, distinct, non-zero.
NewFrame(frame_len) == [i \in 1..frame_len |-> Len(h.in_pushed) + i]

\* lines 493-498: start_thread, the timestamp and the mono downmix.
FilterAudioBegin ==
    /\ cb.pc = "idle"
    /\ d = "alive"
    /\ h.calls < MaxCalls
    /\ \E frame_len \in FrameLens :
         cb' = [ pc |-> "lock_input", frame_len |-> frame_len,
                 main_channel |-> NewFrame(frame_len),
                 timestamp |-> TimestampOf(h.calls + 1), result |-> "none" ]
    /\ IF thread_handle = "none"
       THEN /\ thread_handle' = "some"
            /\ w' = [w EXCEPT !.pc = "start"]
       ELSE UNCHANGED << thread_handle, w >>
    /\ h' = [h EXCEPT !.calls = @ + 1]
    /\ UNCHANGED << state, state_lock, running, input, output, timestamps,
                    input_lock, output_lock, timestamps_lock, has_input,
                    buffer_changed, u, d >>

\* lines 500-501: the input lock, then the timestamps lock.
FilterAudioLockInput ==
    /\ cb.pc = "lock_input"
    /\ input_lock = "free"
    /\ timestamps_lock = "free"
    /\ input_lock' = "callback"
    /\ timestamps_lock' = "callback"
    /\ cb' = [cb EXCEPT !.pc = "push"]
    /\ UNCHANGED << state, state_lock, running, input, output, timestamps,
                    output_lock, has_input, buffer_changed, thread_handle,
                    w, u, d, h >>

\* line 502
InputAfterPush(q, main_channel) == q \o main_channel
\* line 503 with push_front for push_back.
TimestampsAfterPushFront(q, timestamp) == <<timestamp>> \o q

\* line 503
TimestampsAfterPush(q, timestamp) == Append(q, timestamp)

\* lines 502-504: both pushes, then both locks are released.
FilterAudioPush ==
    /\ cb.pc = "push"
    /\ input' = InputAfterPush(input, cb.main_channel)
    /\ timestamps' = TimestampsAfterPush(timestamps, cb.timestamp)
    /\ input_lock' = "free"
    /\ timestamps_lock' = "free"
    /\ cb' = [cb EXCEPT !.pc = "notify"]
    /\ h' = [h EXCEPT !.ts_pushed = Append(@, cb.timestamp),
                      !.in_pushed = @ \o cb.main_channel]
    /\ UNCHANGED << state, state_lock, running, output, output_lock, has_input,
                    buffer_changed, thread_handle, w, u, d >>

\* line 506: notify_one reaches the worker only if it is waiting.
FilterAudioNotify ==
    /\ cb.pc = "notify"
    /\ has_input' = (has_input \/ w.pc = "cv_wait")
    /\ cb' = [cb EXCEPT !.pc = "lock_output"]
    /\ UNCHANGED << state, state_lock, running, input, output, timestamps,
                    input_lock, output_lock, timestamps_lock, buffer_changed,
                    thread_handle, w, u, d, h >>

\* line 509
FilterAudioLockOutput ==
    /\ cb.pc = "lock_output"
    /\ output_lock = "free"
    /\ output_lock' = "callback"
    /\ cb' = [cb EXCEPT !.pc = "check_output"]
    /\ UNCHANGED << state, state_lock, running, input, output, timestamps,
                    input_lock, timestamps_lock, has_input, buffer_changed,
                    thread_handle, w, u, d, h >>

\* line 510 with <= for <: a queue holding exactly one frame is refused.
OutputInsufficientOffByOne(q, frame_len) == Len(q) <= frame_len

\* line 510
OutputInsufficient(q, frame_len) == Len(q) < frame_len

\* lines 510-512: too little output, the frame is discarded.
FilterAudioDiscard ==
    /\ cb.pc = "check_output"
    /\ OutputInsufficient(output, cb.frame_len)
    /\ output_lock' = "free"
    /\ cb' = [cb EXCEPT !.pc = "idle", !.result = "Discarded"]
    /\ h' = [h EXCEPT !.discarded = @ + 1]
    /\ UNCHANGED << state, state_lock, running, input, output, timestamps,
                    input_lock, timestamps_lock, has_input, buffer_changed,
                    thread_handle, w, u, d >>

\* lines 514-518: frame_len samples leave the output queue for the frame;
\* then the timestamps lock is taken.
FilterAudioDrain ==
    /\ cb.pc = "check_output"
    /\ ~OutputInsufficient(output, cb.frame_len)
    /\ timestamps_lock = "free"
    /\ LET drained == SeqTake(output, cb.frame_len)
       IN /\ cb' = [cb EXCEPT !.pc = "pop_timestamp",
                              !.main_channel =
                                  [i \in 1..Len(drained) |-> drained[i][1]]]
          /\ h' = [h EXCEPT !.out_drained = @ \o drained]
    /\ output' = SeqDrop(output, cb.frame_len)
    /\ timestamps_lock' = "callback"
    /\ UNCHANGED << state, state_lock, running, input, timestamps, input_lock,
                    output_lock, has_input, buffer_changed, thread_handle,
                    w, u, d >>

\* lines 519-521
TimestampAfterPop(q, timestamp) == IF q # <<>> THEN Head(q) ELSE timestamp

\* line 519 with front() for pop_front(): the timestamp stays queued.
TimestampsAfterPeek(q) == q

TimestampsAfterPop(q) == IF q # <<>> THEN Tail(q) ELSE q

\* lines 519-526: the oldest timestamp goes onto the frame, both locks are
\* released and the frame is reported modified.
FilterAudioPopTimestamp ==
    /\ cb.pc = "pop_timestamp"
    /\ cb' = [cb EXCEPT !.pc = "idle", !.result = "Modified",
                        !.timestamp = TimestampAfterPop(timestamps, @)]
    /\ timestamps' = TimestampsAfterPop(timestamps)
    /\ timestamps_lock' = "free"
    /\ output_lock' = "free"
    /\ h' = [h EXCEPT !.reported =
                 Append(@, TimestampAfterPop(timestamps, cb.timestamp))]
    /\ UNCHANGED << state, state_lock, running, input, output, input_lock,
                    has_input, buffer_changed, thread_handle, w, u, d >>

(***************************************************************************)
(* thread_loop (the worker thread)                                         *)
(***************************************************************************)
\* line 615: the blocking lock at the start of the thread.
WorkerStartLock ==
    /\ w.pc = "start"
    /\ state_lock = "free"
    /\ state_lock' = "worker"
    /\ w' = [w EXCEPT !.pc = "started"]
    /\ UNCHANGED << state, shared, cb, u, d, h >>

\* ... which parks the thread when the lock is held,
WorkerStartPark ==
    /\ w.pc = "start"
    /\ state_lock # "free"
    /\ w' = [w EXCEPT !.pc = "start_parked"]
    /\ UNCHANGED << state, state_lock, shared, cb, u, d, h >>

\* ... until the holder hands the lock over.
WorkerStartResume ==
    /\ w.pc = "start_parked"
    /\ state_lock = "worker"
    /\ w' = [w EXCEPT !.pc = "started"]
    /\ UNCHANGED << state, state_lock, shared, cb, u, d, h >>

\* lines 616-617
WorkerStartUnlock ==
    /\ w.pc = "started"
    /\ state_lock' = StateUnlock("worker")
    /\ w' = [w EXCEPT !.pc = "loop"]
    /\ UNCHANGED << state, shared, cb, u, d, h >>

\* line 620
WorkerLoop ==
    /\ w.pc = "loop"
    /\ w' = [w EXCEPT !.pc = IF running THEN "try_lock" ELSE "exited"]
    /\ UNCHANGED << state, state_lock, shared, cb, u, d, h >>

\* line 621 with a guard handed out whoever holds the lock.
TryLockIgnoresHolder(lock) == TRUE

\* line 621 with a try_lock that never gives a guard.
TryLockNever(lock) == FALSE

\* line 621: try_lock gives a guard only when nobody holds the lock.
TryLock(lock) == lock = "free"

\* lines 621-627: try_lock; on failure the loop starts over.
WorkerTryLock ==
    /\ w.pc = "try_lock"
    /\ IF TryLock(state_lock)
       THEN /\ state_lock' = "worker"
            /\ w' = [w EXCEPT !.pc = "lock_input", !.input_sample = <<>>,
                              !.sample_frame_size = state.sample_frame_size]
       ELSE /\ w' = [w EXCEPT !.pc = "loop"]
            /\ UNCHANGED state_lock
    /\ UNCHANGED << state, shared, cb, u, d, h >>

\* line 629
WorkerLockInput ==
    /\ w.pc = "lock_input"
    /\ input_lock = "free"
    /\ input_lock' = "worker"
    /\ w' = [w EXCEPT !.pc = "check_input"]
    /\ UNCHANGED << state, state_lock, running, input, output, timestamps,
                    output_lock, timestamps_lock, has_input, buffer_changed,
                    thread_handle, cb, u, d, h >>

\* line 630
\* line 632 with the comparison one short: a queue one sample short of a
\* frame counts as enough.
InputInsufficientOneShort(q, sample_frame_size) == Len(q) < sample_frame_size - 1

InputInsufficient(q, sample_frame_size) == Len(q) < sample_frame_size

\* The holder of the input lock where the worker waits on the Condvar.
InputLockWhileWaiting == "free"
\* Lines 628-637 without the inner block: the input guard lives on.
InputLockKept == "worker"

\* The holder of the input lock when the frame has been drained (line 637).
InputLockAfterDrain == "free"

\* lines 630-633: too few samples; the wait releases the input lock.
WorkerWait ==
    /\ w.pc = "check_input"
    /\ InputInsufficient(input, w.sample_frame_size)
    /\ input_lock' = InputLockWhileWaiting
    /\ w' = [w EXCEPT !.pc = "cv_wait", !.timed_out = FALSE]
    /\ UNCHANGED << state, state_lock, running, input, output, timestamps,
                    output_lock, timestamps_lock, has_input, buffer_changed,
                    thread_handle, cb, u, d, h >>

\* line 633 with a wait that has no timeout.
WaitIsUnbounded == FALSE

\* line 633: the wait is bounded (500 ms).
WaitIsBounded == TRUE

\* lines 631-633: the waiter is woken by a notification or by the timeout.
WorkerWake ==
    /\ w.pc = "cv_wait"
    /\ \E timed_out \in BOOLEAN :
         /\ IF timed_out THEN WaitIsBounded ELSE has_input
         /\ w' = [w EXCEPT !.pc = "cv_woken", !.timed_out = timed_out]
    /\ has_input' = FALSE
    /\ UNCHANGED << state, state_lock, running, input, output, timestamps,
                    input_lock, output_lock, timestamps_lock, buffer_changed,
                    thread_handle, cb, u, d, h >>

\* lines 631-634: with the input lock again, wait_while_for waits once more
\* unless it timed out or the frame is there; then `continue` drops the
\* input guard and the state guard.
WorkerWoken ==
    /\ w.pc = "cv_woken"
    /\ input_lock = InputLockWhileWaiting
    /\ IF ~w.timed_out /\ InputInsufficient(input, w.sample_frame_size)
       THEN /\ w' = [w EXCEPT !.pc = "cv_wait"]
            /\ input_lock' = InputLockWhileWaiting
            /\ UNCHANGED state_lock
       ELSE /\ w' = [w EXCEPT !.pc = "loop"]
            /\ input_lock' = "free"
            /\ state_lock' = StateUnlock("worker")
    /\ UNCHANGED << state, running, input, output, timestamps, output_lock,
                    timestamps_lock, has_input, buffer_changed, thread_handle,
                    cb, u, d, h >>

\* line 636
InputSampleAfterDrain(q, sample_frame_size) == SeqTake(q, sample_frame_size)

\* line 636 with the range one short: the last sample of the frame stays.
InputAfterDrainOneShort(q, sample_frame_size) == SeqDrop(q, sample_frame_size - 1)

InputAfterDrain(q, sample_frame_size) == SeqDrop(q, sample_frame_size)

\* lines 636-637: one frame leaves the input queue.
WorkerDrain ==
    /\ w.pc = "check_input"
    /\ ~InputInsufficient(input, w.sample_frame_size)
    /\ w' = [w EXCEPT !.pc = "process",
                      !.input_sample =
                          InputSampleAfterDrain(input, w.sample_frame_size)]
    /\ input' = InputAfterDrain(input, w.sample_frame_size)
    /\ input_lock' = InputLockAfterDrain
    /\ h' = [h EXCEPT !.in_drained =
                 @ \o InputSampleAfterDrain(input, w.sample_frame_size)]
    /\ UNCHANGED << state, state_lock, running, output, timestamps, output_lock,
                    timestamps_lock, has_input, buffer_changed, thread_handle,
                    cb, u, d >>

\* rt_utils::get_sola_offset: an offset inside the search window.
SolaOffsets(st) == 0 .. (st.sola_search_frame_size - 1)

\* line 638: process_one_frame returns the chunk and leaves the new state.
WorkerProcess ==
    /\ w.pc = "process"
    /\ \E sola_offset \in SolaOffsets(state) :
         /\ ~ProcessPanics(state, w.input_sample, sola_offset)
         /\ LET r == ProcessOneFrame(state, w.input_sample, sola_offset)
            IN /\ state' = r.state
               /\ w' = [w EXCEPT !.pc = "lock_output",
                                 !.output_frame = r.output_frame]
    /\ h' = [h EXCEPT !.processed = @ + 1, !.frames = @ + 1,
                      !.slid = @ \o w.input_sample]
    /\ UNCHANGED << state_lock, shared, cb, u, d >>

\* line 638: process_one_frame panics; the unwinding drops the state guard
\* and the thread is gone.
WorkerPanic ==
    /\ w.pc = "process"
    /\ \/ \E sola_offset \in SolaOffsets(state) :
            ProcessPanics(state, w.input_sample, sola_offset)
       \/ ProcessMayPanic(state, w.input_sample)
    /\ w' = [w EXCEPT !.pc = "panicked"]
    /\ state' = StateAtPanic(state, w.input_sample)
    /\ h' = [h EXCEPT !.slid = IF SlidePanics(state, w.input_sample)
                                THEN @ ELSE @ \o w.input_sample]
    /\ state_lock' = StateUnlock("worker")
    /\ UNCHANGED << shared, cb, u, d >>

\* line 640
WorkerLockOutput ==
    /\ w.pc = "lock_output"
    /\ output_lock = "free"
    /\ output_lock' = "worker"
    /\ w' = [w EXCEPT !.pc = "push_output"]
    /\ UNCHANGED << state, state_lock, running, input, output, timestamps,
                    input_lock, timestamps_lock, has_input, buffer_changed,
                    thread_handle, cb, u, d, h >>

\* line 641: the chunk, each sample with the serial number of its push.
OutputAfterPush(q, output_frame, pushed_before) ==
    q \o [i \in 1..Len(output_frame) |-> <<output_frame[i], pushed_before + i>>]

\* lines 641-643: the chunk is pushed; the output guard and the state guard
\* are dropped.
WorkerPushOutput ==
    /\ w.pc = "push_output"
    /\ output' = OutputAfterPush(output, w.output_frame, Len(h.out_pushed))
    /\ output_lock' = "free"
    /\ state_lock' = StateUnlock("worker")
    /\ w' = [w EXCEPT !.pc = "loop", !.output_frame = <<>>]
    /\ h' = [h EXCEPT !.out_pushed =
                 OutputAfterPush(@, w.output_frame, Len(h.out_pushed))]
    /\ UNCHANGED << state, running, input, timestamps, input_lock,
                    timestamps_lock, has_input, buffer_changed, thread_handle,
                    cb, u, d >>

(***************************************************************************)
(* update (the thread that changes the settings)                           *)
(***************************************************************************)
\* The host calls update with the new settings; the host rate and the
\* outcome of a model load are read inside.
UpdateBegin ==
    /\ u.pc = "idle"
    /\ d = "alive"
    /\ h.updates < MaxUpdates
    /\ \E settings \in SettingsSet, sample_rate \in HostRates :
         \E load_ok \in LoadOutcomes(settings) :
           u' = [ pc |-> "lock_state", settings |-> settings,
                  sample_rate |-> sample_rate, load_ok |-> load_ok,
                  recalculate |-> FALSE ]
    /\ h' = [h EXCEPT !.updates = @ + 1]
    /\ UNCHANGED << state, state_lock, shared, cb, w, d >>

\* line 350: the blocking lock,
UpdateLock ==
    /\ u.pc = "lock_state"
    /\ state_lock = "free"
    /\ state_lock' = "update"
    /\ u' = [u EXCEPT !.pc = "body"]
    /\ UNCHANGED << state, shared, cb, w, d, h >>

\* ... which parks the thread when the lock is held,
UpdatePark ==
    /\ u.pc = "lock_state"
    /\ state_lock # "free"
    /\ u' = [u EXCEPT !.pc = "parked"]
    /\ UNCHANGED << state, state_lock, shared, cb, w, d, h >>

\* ... until the holder hands the lock over.
UpdateResume ==
    /\ u.pc = "parked"
    /\ state_lock = "update"
    /\ u' = [u EXCEPT !.pc = "body"]
    /\ UNCHANGED << state, state_lock, shared, cb, w, d, h >>

\* lines 352-474: everything update does to the engine state.
UpdateBody ==
    /\ u.pc = "body"
    /\ LET recalculate == RecalculateInputBuffer(state, u.settings)
       IN /\ state' = UpdateState(state, u.settings, u.sample_rate, u.load_ok)
          /\ buffer_changed' = (buffer_changed \/ recalculate)
          /\ u' = [u EXCEPT !.pc = IF recalculate THEN "lock_input" ELSE "unlock",
                            !.recalculate = recalculate]
          /\ h' = [h EXCEPT !.reconfigured = (@ \/ recalculate),
                            !.processed = IF recalculate THEN 0 ELSE @,
                            !.slid = IF recalculate THEN <<>> ELSE @,
                            !.geom_rate = IF recalculate THEN u.sample_rate ELSE @,
                            !.last_settings = {u.settings},
                            !.last_recalculate = recalculate,
                            !.repeated = (u.settings \in h.last_settings)]
    /\ UNCHANGED << state_lock, running, input, output, timestamps, input_lock,
                    output_lock, timestamps_lock, has_input, thread_handle,
                    cb, w, d >>

\* line 476
UpdateLockInput ==
    /\ u.pc = "lock_input"
    /\ input_lock = "free"
    /\ input_lock' = "update"
    /\ u' = [u EXCEPT !.pc = "clear_input"]
    /\ UNCHANGED << state, state_lock, running, input, output, timestamps,
                    output_lock, timestamps_lock, has_input, buffer_changed,
                    thread_handle, cb, w, d, h >>

\* line 477
InputAfterClear(q) == <<>>

\* line 481 left out: the output queue keeps its samples.
OutputNotCleared(q) == q

\* line 481
OutputAfterClear(q) == <<>>

\* Line 478 missing: the input guard outlives its block.
InputLockAfterClearKept == "update"

\* line 478: the block ends and the input guard is dropped.
InputLockAfterClear == "free"

\* lines 477-478
UpdateClearInput ==
    /\ u.pc = "clear_input"
    /\ input' = InputAfterClear(input)
    /\ input_lock' = InputLockAfterClear
    /\ u' = [u EXCEPT !.pc = "lock_output"]
    /\ h' = [h EXCEPT !.in_mark = Len(h.in_pushed)]
    /\ UNCHANGED << state, state_lock, running, output, timestamps, output_lock,
                    timestamps_lock, has_input, buffer_changed, thread_handle,
                    cb, w, d >>

\* line 480
UpdateLockOutput ==
    /\ u.pc = "lock_output"
    /\ output_lock = "free"
    /\ output_lock' = "update"
    /\ u' = [u EXCEPT !.pc = "clear_output"]
    /\ UNCHANGED << state, state_lock, running, input, output, timestamps,
                    input_lock, timestamps_lock, has_input, buffer_changed,
                    thread_handle, cb, w, d, h >>

\* lines 481-482
UpdateClearOutput ==
    /\ u.pc = "clear_output"
    /\ output' = OutputAfterClear(output)
    /\ output_lock' = "free"
    /\ u' = [u EXCEPT !.pc = "unlock"]
    /\ h' = [h EXCEPT !.out_mark = Len(h.out_pushed)]
    /\ UNCHANGED << state, state_lock, running, input, timestamps, input_lock,
                    timestamps_lock, has_input, buffer_changed, thread_handle,
                    cb, w, d >>

\* line 487: the state guard is dropped.
UpdateUnlock ==
    /\ u.pc = "unlock"
    /\ state_lock' = StateUnlock("update")
    /\ u' = UpdateIdle
    /\ UNCHANGED << state, shared, cb, w, d, h >>

(***************************************************************************)
(* drop                                                                    *)
(***************************************************************************)
\* lines 658-659: the host destroys the filter when no callback is running.
Drop ==
    /\ d = "alive"
    /\ cb.pc = "idle"
    /\ u.pc = "idle"
    /\ running' = FALSE
    /\ IF thread_handle = "some"
       THEN /\ thread_handle' = "taken"
            /\ d' = "join"
       ELSE /\ d' = "done"
            /\ UNCHANGED thread_handle
    /\ h' = [h EXCEPT !.drop_pc = w.pc]
    /\ UNCHANGED << state, state_lock, input, output, timestamps, input_lock,
                    output_lock, timestamps_lock, has_input, buffer_changed,
                    cb, w, u >>

WorkerGone == w.pc \in {"exited", "panicked"}

\* line 660: join returns when the worker thread has ended; the unwrap
\* passes a panic of the worker on.
DropJoin ==
    /\ d = "join"
    /\ WorkerGone
    /\ d' = IF w.pc = "panicked" THEN "panicked" ELSE "done"
    /\ UNCHANGED << state, state_lock, shared, cb, w, u, h >>

(***************************************************************************)
(* The concurrent specification                                            *)
(***************************************************************************)
Next ==
    \/ FilterAudioBegin
    \/ FilterAudioLockInput
    \/ FilterAudioPush
    \/ FilterAudioNotify
    \/ FilterAudioLockOutput
    \/ FilterAudioDiscard
    \/ FilterAudioDrain
    \/ FilterAudioPopTimestamp
    \/ WorkerStartLock
    \/ WorkerStartPark
    \/ WorkerStartResume
    \/ WorkerStartUnlock
    \/ WorkerLoop
    \/ WorkerTryLock
    \/ WorkerLockInput
    \/ WorkerWait
    \/ WorkerWake
    \/ WorkerWoken
    \/ WorkerDrain
    \/ WorkerProcess
    \/ WorkerPanic
    \/ WorkerLockOutput
    \/ WorkerPushOutput
    \/ UpdateBegin
    \/ UpdateLock
    \/ UpdatePark
    \/ UpdateResume
    \/ UpdateBody
    \/ UpdateLockInput
    \/ UpdateClearInput
    \/ UpdateLockOutput
    \/ UpdateClearOutput
    \/ UpdateUnlock
    \/ Drop
    \/ DropJoin

Spec == Init /\ [][Next]_vars

\* The steps of the worker thread.
WorkerNext ==
    \/ WorkerStartLock
    \/ WorkerStartPark
    \/ WorkerStartResume
    \/ WorkerStartUnlock
    \/ WorkerLoop
    \/ WorkerTryLock
    \/ WorkerLockInput
    \/ WorkerWait
    \/ WorkerWake
    \/ WorkerWoken
    \/ WorkerDrain
    \/ WorkerProcess
    \/ WorkerPanic
    \/ WorkerLockOutput
    \/ WorkerPushOutput

\* The operating system keeps scheduling the worker thread and the thread
\* that runs Drop; nothing is assumed of the audio callback or of update.
LiveSpec == Init /\ [][Next]_vars /\ WF_vars(WorkerNext) /\ WF_vars(DropJoin)

\* The steps of a filter_audio call the host has made.
FilterAudioNext ==
    \/ FilterAudioLockInput
    \/ FilterAudioPush
    \/ FilterAudioNotify
    \/ FilterAudioLockOutput
    \/ FilterAudioDiscard
    \/ FilterAudioDrain
    \/ FilterAudioPopTimestamp

\* The steps of an update call the host has made.
UpdateNext ==
    \/ UpdateLock
    \/ UpdatePark
    \/ UpdateResume
    \/ UpdateBody
    \/ UpdateLockInput
    \/ UpdateClearInput
    \/ UpdateLockOutput
    \/ UpdateClearOutput
    \/ UpdateUnlock

\* Fair scheduling of the three threads: each keeps running where it can
\* take a step.  Whether the host calls filter_audio, update or drop at all
\* is left open.
FairSpec ==
    /\ Init /\ [][Next]_vars
    /\ WF_vars(WorkerNext) /\ WF_vars(FilterAudioNext) /\ WF_vars(UpdateNext)

(***************************************************************************)
(* The geometry on its own: the filter is created and then reconfigured    *)
(* with no audio running, at the rates and durations of a real host.       *)
(***************************************************************************)
GeomRates == {22050, 44100, 48000}
GeomDestRates == {40000, 48000}
GeomSampleLengths == {30, 150}
GeomFadeLengths == {1, 7}
GeomExtraTimes == {0, 200, 500}

GeomSettingsSet ==
    { [BaseSettings EXCEPT !.sample_length = sl, !.fade_length = fl,
                           !.extra_inference_time = et, !.dest_sample_rate = dr] :
        sl \in GeomSampleLengths, fl \in GeomFadeLengths,
        et \in GeomExtraTimes, dr \in GeomDestRates }

\* Settings with a duration of no zc unit: update takes them as they come
\* (lines 384-396 store any value that differs from the stored one).
GeomDegenerateSettings ==
    { [BaseSettings EXCEPT !.sample_length = 0, !.fade_length = 7,
                           !.extra_inference_time = 200, !.dest_sample_rate = 40000],
      [BaseSettings EXCEPT !.sample_length = 30, !.fade_length = 0,
                           !.extra_inference_time = 200, !.dest_sample_rate = 40000] }

\* create, lines 138-268.
GeomInit ==
    \E sample_rate \in GeomRates, settings \in GeomSettingsSet :
        /\ state = CreateState(sample_rate, settings, TRUE)
        /\ InitRest(sample_rate)

\* update, lines 349-487, with no other thread running.
GeomUpdate ==
    /\ u.pc = "idle" /\ cb.pc = "idle" /\ w.pc = "none" /\ state_lock = "free"
    /\ h.updates < MaxGeomUpdates
    /\ \E settings \in GeomSettingsSet \cup GeomDegenerateSettings,
          sample_rate \in GeomRates :
         LET recalculate == RecalculateInputBuffer(state, settings)
         IN /\ state' = UpdateState(state, settings, sample_rate, TRUE)
            /\ buffer_changed' = (buffer_changed \/ recalculate)
            /\ input' = IF recalculate THEN InputAfterClear(input) ELSE input
            /\ output' = IF recalculate THEN OutputAfterClear(output) ELSE output
            /\ h' = [h EXCEPT !.updates = @ + 1,
                              !.reconfigured = (@ \/ recalculate),
                              !.processed = IF recalculate THEN 0 ELSE @,
                            !.slid = IF recalculate THEN <<>> ELSE @,
                              !.geom_rate = IF recalculate THEN sample_rate ELSE @,
                              !.last_settings = {settings},
                              !.last_recalculate = recalculate,
                              !.repeated = (settings \in h.last_settings)]
    /\ UNCHANGED << state_lock, running, timestamps, input_lock, output_lock,
                    timestamps_lock, has_input, thread_handle, cb, w, u, d >>

GeomNext == GeomUpdate

GeomSpec == GeomInit /\ [][GeomNext]_vars

(***************************************************************************)
(* The worker alone: whole iterations of thread_loop, one frame each, with *)
(* updates between them.  From try_lock to the push the worker holds the   *)
(* engine-state lock (lines 623-643), so an iteration is one step for      *)
(* everything the engine state holds.                                      *)
(***************************************************************************)
\* create, lines 138-268, at the scaled rates.
FrameInit ==
    \E sample_rate \in HostRates, settings \in SettingsSet :
        /\ state = CreateState(sample_rate, settings, TRUE)
        /\ InitRest(sample_rate)

\* lines 620-643: a frame is in the queue, is drained, processed and pushed.
FrameIteration ==
    /\ u.pc = "idle" /\ cb.pc = "idle" /\ w.pc = "none" /\ state_lock = "free"
    /\ h.frames < MaxFrames
    /\ LET input_sample == NewFrame(state.sample_frame_size)
       IN \E sola_offset \in SolaOffsets(state) :
            /\ ~ProcessPanics(state, input_sample, sola_offset)
            /\ LET r == ProcessOneFrame(state, input_sample, sola_offset)
               IN /\ state' = r.state
                  /\ output' = OutputAfterPush(output, r.output_frame,
                                               Len(h.out_pushed))
                  /\ h' = [h EXCEPT
                             !.in_pushed = @ \o input_sample,
                             !.in_drained = @ \o input_sample,
                             !.out_pushed = OutputAfterPush(@, r.output_frame,
                                                            Len(h.out_pushed)),
                             !.processed = @ + 1, !.frames = @ + 1,
                             !.slid = @ \o input_sample]
    /\ UNCHANGED << state_lock, running, input, timestamps, input_lock,
                    output_lock, timestamps_lock, has_input, buffer_changed,
                    thread_handle, cb, w, u, d >>

\* line 638: process_one_frame panics and the thread is gone.
FramePanic ==
    /\ u.pc = "idle" /\ cb.pc = "idle" /\ w.pc = "none" /\ state_lock = "free"
    /\ h.frames < MaxFrames
    /\ LET input_sample == NewFrame(state.sample_frame_size)
       IN /\ \/ \E sola_offset \in SolaOffsets(state) :
                  ProcessPanics(state, input_sample, sola_offset)
             \/ ProcessMayPanic(state, input_sample)
          /\ state' = StateAtPanic(state, input_sample)
          /\ h' = [h EXCEPT
                     !.in_pushed = @ \o input_sample,
                     !.in_drained = @ \o input_sample,
                     !.slid = IF SlidePanics(state, input_sample)
                              THEN @ ELSE @ \o input_sample]
    /\ w' = [w EXCEPT !.pc = "panicked"]
    /\ UNCHANGED << state_lock, running, input, output, timestamps, input_lock,
                    output_lock, timestamps_lock, has_input, buffer_changed,
                    thread_handle, cb, u, d >>

\* update, lines 349-487, between two iterations of the worker.
FrameUpdate ==
    /\ u.pc = "idle" /\ cb.pc = "idle" /\ state_lock = "free"
    /\ h.updates < MaxFrameUpdates
    /\ \E settings \in SettingsSet, sample_rate \in HostRates :
         LET recalculate == RecalculateInputBuffer(state, settings)
         IN /\ state' = UpdateState(state, settings, sample_rate, TRUE)
            /\ buffer_changed' = (buffer_changed \/ recalculate)
            /\ input' = IF recalculate THEN InputAfterClear(input) ELSE input
            /\ output' = IF recalculate THEN OutputAfterClear(output) ELSE output
            /\ h' = [h EXCEPT !.updates = @ + 1,
                              !.reconfigured = (@ \/ recalculate),
                              !.processed = IF recalculate THEN 0 ELSE @,
                              !.slid = IF recalculate THEN <<>> ELSE @,
                              !.geom_rate = IF recalculate THEN sample_rate ELSE @,
                              !.last_settings = {settings},
                              !.last_recalculate = recalculate,
                              !.repeated = (settings \in h.last_settings)]
    /\ UNCHANGED << state_lock, running, timestamps, input_lock, output_lock,
                    timestamps_lock, has_input, thread_handle, cb, w, u, d >>

FrameNext == FrameIteration \/ FramePanic \/ FrameUpdate

FrameSpec == FrameInit /\ [][FrameNext]_vars

(***************************************************************************)
(* Properties                                                              *)
(***************************************************************************)
IsPrefix(a, b) == Len(a) <= Len(b) /\ a = SubSeq(b, 1, Len(a))

\* C1: a filter_audio call ends Discarded or Modified.  Where it checks the
\* output queue: with fewer than frame_len samples queued it returns
\* Discarded and leaves the output queue, the frame's timestamp and the
\* timestamp queue as they are; otherwise exactly frame_len samples leave
\* the head of the output queue, and the call goes on to return Modified.
\* While the callback holds the output lock no other thread changes the
\* output queue.
C1_Step ==
    /\ (cb.pc = "check_output" /\ cb'.pc # "check_output") =>
         IF Len(output) < cb.frame_len
         THEN /\ cb'.pc = "idle" /\ cb'.result = "Discarded"
              /\ output' = output
              /\ timestamps' = timestamps
              /\ cb'.timestamp = cb.timestamp
         ELSE /\ cb'.pc = "pop_timestamp"
              /\ Len(output') = Len(output) - cb.frame_len
              /\ output = SubSeq(output, 1, cb.frame_len) \o output'
              /\ cb'.main_channel =
                   [i \in 1..cb.frame_len |-> output[i][1]]
    /\ (cb.pc = "pop_timestamp" /\ cb'.pc # "pop_timestamp") =>
         /\ cb'.pc = "idle" /\ cb'.result = "Modified"
         /\ output' = output
    /\ (cb.pc # "idle" /\ cb'.pc = "idle") =>
         cb'.result \in {"Discarded", "Modified"}
    /\ (output_lock = "callback" /\ cb' = cb) => output' = output

C1_AllOrNothing == [][C1_Step]_vars

\* Both outcomes have happened, and output is still queued.
C1_Witness ==
    /\ cb.pc = "idle" /\ cb.result = "Modified"
    /\ h.discarded >= 1
    /\ output # <<>>

\* C2: the K-th call that returned Modified put on its frame the K-th
\* timestamp ever pushed.
C2_TimestampOrder ==
    /\ Len(h.reported) <= Len(h.ts_pushed)
    /\ \A k \in 1..Len(h.reported) : h.reported[k] = h.ts_pushed[k]

\* A call was discarded, a later one reported the first timestamp, and a
\* reconfiguration happened on the way.
C2_Witness ==
    /\ Len(h.reported) >= 1
    /\ h.discarded >= 1
    /\ h.reported[1] = TimestampOf(1)
    /\ cb.pc = "idle" /\ cb.result = "Modified"
    /\ h.calls = 2
    /\ h.reconfigured

\* C3: between callbacks as many timestamps are queued as calls were
\* discarded: every call pushed one, every Modified call popped one; and
\* the pop of a Modified call finds the queue non-empty.
C3_TimestampPairing ==
    /\ cb.pc = "idle" =>
         /\ Len(h.ts_pushed) = h.calls
         /\ Len(h.reported) + h.discarded = h.calls
         /\ Len(timestamps) = h.discarded
    /\ cb.pc = "pop_timestamp" => timestamps # <<>>

\* One call was discarded, one modified, one timestamp is left.
C3_Witness ==
    /\ cb.pc = "idle"
    /\ h.discarded = 1
    /\ Len(h.reported) = 1
    /\ Len(timestamps) = 1

\* C4: without reconfiguration, what the worker drained from the input
\* queue is a prefix of what the callback pushed, and what the callback
\* drained from the output queue is a prefix of what the worker pushed.
C4_FifoOrder ==
    ~h.reconfigured =>
        /\ IsPrefix(h.in_drained, h.in_pushed)
        /\ IsPrefix(h.out_drained, h.out_pushed)

\* Frames of 2 pushed and a frame of 3 drained; a chunk of 3 pushed and a
\* frame of 2 drained.
C4_Witness ==
    /\ ~h.reconfigured
    /\ Len(h.in_pushed) = 4 /\ Len(h.in_drained) = 3
    /\ Len(h.out_pushed) = 3 /\ Len(h.out_drained) = 2

\* C5: the callback never holds the engine-state lock; a queue lock is held
\* only across the few statements of its block: not while a frame is being
\* processed, not while waiting on the condition variable, not while
\* waiting for the engine-state lock.  So while the worker is inside
\* process_one_frame no queue lock is held by anyone but the callback, and
\* while update holds the engine-state lock a queue lock it holds is about
\* to be released.
C5_LockDiscipline ==
    /\ state_lock \in {"free", "worker", "update"}
    /\ w.pc \in {"process", "cv_wait", "start", "start_parked", "try_lock",
                 "loop", "lock_input", "lock_output"} =>
         (input_lock # "worker" /\ output_lock # "worker")
    /\ u.pc \in {"lock_state", "parked"} =>
         (input_lock # "update" /\ output_lock # "update")
    /\ w.pc = "process" =>
         (input_lock \in {"free", "callback"} /\ output_lock \in {"free", "callback"})
    /\ input_lock = "worker" => w.pc \in {"check_input"}
    /\ output_lock = "worker" => w.pc = "push_output"
    /\ input_lock = "update" => u.pc = "clear_input"
    /\ output_lock = "update" => u.pc = "clear_output"

\* The callback is inside its push while the worker processes a frame.
C5_Witness ==
    /\ w.pc = "process"
    /\ cb.pc = "push"
    /\ input_lock = "callback"

RValues(b) == {b[i][2] : i \in 1..Len(b)}

\* C7: where an update that recomputed the geometry is about to release the
\* engine-state lock, both sliding input buffers have the lengths the new
\* geometry gives and hold only zeros, the output queue is empty and the
\* input queue holds only samples pushed after update cleared it.  From
\* then on the worker processes no sample pushed before that clear, the
\* host-rate sliding buffer holds none, and the output queue holds no
\* sample pushed before update cleared it.
C7_ReconfigurationClears ==
    /\ (u.pc = "unlock" /\ u.recalculate) =>
         LET n == state.extra_frame_size + state.crossfade_frame_size
                    + state.sola_search_frame_size + state.sample_frame_size
         IN /\ RLen(state.input_buffer) = n
            /\ RAllZero(state.input_buffer)
            /\ RLen(state.input_buffer_16k) = (160 * n) \div (u.sample_rate \div 100)
            /\ RAllZero(state.input_buffer_16k)
            /\ output = <<>>
            /\ \A i \in 1..Len(input) : input[i] > h.in_mark
    /\ w.pc = "process" =>
         \A i \in 1..Len(w.input_sample) : w.input_sample[i] > h.in_mark
    /\ \A v \in RValues(state.input_buffer) : v = 0 \/ v > h.in_mark
    /\ (h.reconfigured /\ u.pc \in {"idle", "lock_state", "parked", "unlock"}) =>
         \A i \in 1..Len(output) : output[i][2] > h.out_mark

\* A frame had been processed, and samples were waiting in both queues,
\* when update cleared them.
C7_Witness ==
    /\ u.pc = "unlock" /\ u.recalculate
    /\ h.frames >= 1
    /\ h.in_mark > Len(h.in_drained)
    /\ h.out_mark > Len(h.out_drained)

C6_TeardownTerminates ==
    (d = "join") ~> (WorkerGone /\ d \in {"done", "panicked"})

\* Drop found the worker waiting on the condition variable, and has joined
\* it after it left the loop.
C6_Witness ==
    /\ d = "done"
    /\ w.pc = "exited"
    /\ h.drop_pc = "cv_wait"
    /\ ~has_input

\* The sizes the state holds.
StoredGeometry ==
    [ sample_frame_size |-> state.sample_frame_size,
      sample_frame_16k |-> state.sample_frame_16k,
      crossfade_frame_size |-> state.crossfade_frame_size,
      sola_buffer_frame_size |-> state.sola_buffer_frame_size,
      sola_search_frame_size |-> state.sola_search_frame_size,
      extra_frame_size |-> state.extra_frame_size,
      model_return_length |-> state.model_return_length,
      model_return_size |-> state.model_return_size,
      input_buffer_size |-> RLen(state.input_buffer),
      input_buffer_16k_size |-> RLen(state.input_buffer_16k) ]

\* C9: every host-rate size computed at creation and at reconfiguration
\* (the frame, crossfade, SOLA buffer, SOLA search and extra sizes and the
\* length of the host-rate sliding buffer) is a non-negative multiple of
\* zc, the host rate of that computation over 100; the 16 kHz frame size
\* and the length of the 16 kHz sliding buffer are multiples of 160.
C9_SizesAligned ==
    LET zc == h.geom_rate \div 100
        g == StoredGeometry
    IN /\ \A size \in { g.sample_frame_size, g.crossfade_frame_size,
                       g.sola_buffer_frame_size, g.sola_search_frame_size,
                       g.extra_frame_size, g.input_buffer_size } :
            size >= 0 /\ size % zc = 0
       /\ g.sample_frame_16k >= 0 /\ g.sample_frame_16k % 160 = 0
       /\ g.input_buffer_16k_size >= 0 /\ g.input_buffer_16k_size % 160 = 0

\* A reconfiguration at 22050 Hz (zc = 220), where 5.00 s is 501 zc units
\* and 0.01 s is one.
C9_Witness ==
    /\ h.reconfigured
    /\ h.geom_rate = 22050
    /\ state.extra_frame_size = 501 * 220
    /\ state.crossfade_frame_size = 220
    /\ state.sample_frame_16k = 150 * 160

\* The nearest whole number to n / d.
RefRound(num, den) ==
    CHOOSE k \in 0 .. (num \div den + 1) :
        2 * k * den - den <= 2 * num /\ 2 * num <= 2 * k * den + den

\* The reference formulas of the geometry.
RefGeometry(sample_rate, model_output_sample_rate, sample_length, crossfade_length, extra_inference_time) ==
    LET zc == sample_rate \div 100
        Size(duration) == RefRound(duration * sample_rate, 100 * zc) * zc
        sola == IF Size(crossfade_length) <= 4 * zc
                THEN Size(crossfade_length) ELSE 4 * zc
        total == Size(extra_inference_time) + Size(crossfade_length) + zc
                   + Size(sample_length)
        length == (Size(sample_length) + sola + zc) \div zc
    IN [ sample_frame_size |-> Size(sample_length),
         sample_frame_16k |-> RefRound(sample_length * sample_rate, 100 * zc) * 160,
         crossfade_frame_size |-> Size(crossfade_length),
         sola_buffer_frame_size |-> sola,
         sola_search_frame_size |-> zc,
         extra_frame_size |-> Size(extra_inference_time),
         model_return_length |-> length,
         model_return_size |-> length * (model_output_sample_rate \div 100),
         input_buffer_size |-> total,
         input_buffer_16k_size |-> (160 * total) \div zc ]

\* C10: the geometry the state holds, whether create or update computed
\* it, is the reference geometry of the host rate of that computation and
\* the stored settings; at 48 kHz with 0.30 s, 0.07 s, 2.00 s and 40000 it
\* is 14400, 3360, 1920 and 480.
C10_GeometryIsReference ==
    /\ StoredGeometry =
         RefGeometry(h.geom_rate, state.model_output_sample_rate,
                     state.sample_length, state.crossfade_length,
                     state.extra_inference_time)
    /\ ( /\ h.geom_rate = 48000
         /\ state.model_output_sample_rate = 40000
         /\ state.sample_length = 30
         /\ state.crossfade_length = 7
         /\ state.extra_inference_time = 200 ) =>
           /\ state.sample_frame_size = 14400
           /\ state.crossfade_frame_size = 3360
           /\ state.sola_buffer_frame_size = 1920
           /\ state.sola_search_frame_size = 480

\* The example of the specification, computed by update.
C10_Witness ==
    /\ h.reconfigured
    /\ h.geom_rate = 48000
    /\ state.model_output_sample_rate = 40000
    /\ state.sample_length = 30
    /\ state.crossfade_length = 7
    /\ state.extra_inference_time = 200
    /\ state.sola_buffer_frame_size = 1920

\* What a reconfiguration computes or clears, queues aside.
Reconfigured ==
    [ geometry |-> StoredGeometry,
      input_buffer |-> state.input_buffer,
      input_buffer_16k |-> state.input_buffer_16k,
      fade_in_window |-> state.fade_in_window,
      fade_out_window |-> state.fade_out_window ]

\* C11: an update that is given the settings of the update before it does
\* not recalculate, and leaves the geometry, both sliding input buffers,
\* the fade windows and both queues as the first one left them.
C11_Step ==
    (h'.updates = h.updates + 1 /\ h.updates >= 1 /\ h'.repeated) =>
        /\ ~h'.last_recalculate
        /\ Reconfigured' = Reconfigured
        /\ input' = input
        /\ output' = output

C11_UpdateIdempotent == [][C11_Step]_vars

\* An update that changed the geometry was followed by one with the same
\* settings.
C11_Witness ==
    /\ h.updates = 2
    /\ h.repeated
    /\ h.reconfigured
    /\ state.sample_length = 150
    /\ RLen(state.input_buffer) > 0

\* C12: in every reachable state the frame size and the SOLA buffer size
\* are positive: a duration of no zc unit is rejected or clamped before it
\* reaches the geometry.
C12_SizesPositive ==
    /\ state.sample_frame_size > 0
    /\ state.sola_buffer_frame_size > 0

\* The settings update stores, as the state holds them.
StoredSettings ==
    [ pitch_shift |-> state.pitch_shift,
      resonance_shift |-> state.resonance_shift,
      index_rate |-> state.index_rate,
      loudness_factor |-> state.rms_mix_rate,
      sample_length |-> state.sample_length,
      fade_length |-> state.crossfade_length,
      extra_inference_time |-> state.extra_inference_time,
      dest_sample_rate |-> state.model_output_sample_rate ]

\* The same fields of a settings object.
SettingsOf(settings) ==
    [ pitch_shift |-> settings.pitch_shift,
      resonance_shift |-> settings.resonance_shift,
      index_rate |-> settings.index_rate,
      loudness_factor |-> settings.loudness_factor,
      sample_length |-> settings.sample_length,
      fade_length |-> settings.fade_length,
      extra_inference_time |-> settings.extra_inference_time,
      dest_sample_rate |-> settings.dest_sample_rate ]

\* The body of update runs with a model load that fails.
LoadFailsInBody ==
    /\ u.pc = "body"
    /\ u'.pc # "body"
    /\ PathChanged(state.model_path, u.settings.model_path)
    /\ PathFromSettings(u.settings.model_path) # NoPath
    /\ ~u.load_ok

\* C13, update: where the model load fails, the body of update still stores
\* every setting, sets recalculate_input_buffer as the settings require,
\* and when it is set computes the geometry and goes on to clear the queues.
C13_Step ==
    LoadFailsInBody =>
        /\ StoredSettings' = SettingsOf(u.settings)
        /\ state'.model_path = PathFromSettings(u.settings.model_path)
        /\ u'.recalculate = RecalculateInputBuffer(state, u.settings)
        /\ u'.recalculate =>
             /\ u'.pc = "lock_input"
             /\ StoredGeometry' =
                  UpdateGeometry(u.sample_rate, u.settings.dest_sample_rate,
                                 u.settings.sample_length, u.settings.fade_length,
                                 u.settings.extra_inference_time)

\* C13, create: the state as created (no update and no frame yet) is, but
\* for the stored path, the state that create builds from the same settings
\* with the path of a model whose load fails.
C13_Create ==
    (h.updates = 0 /\ h.frames = 0) =>
        \E settings \in CreateSettingsSet :
            LET with_model == [settings EXCEPT !.model_path = "m.onnx"]
                failed == CreateState(state.sample_rate, with_model, FALSE)
            IN /\ state = CreateState(state.sample_rate, settings, TRUE)
               /\ failed.model_path = "m.onnx"
               /\ failed = [state EXCEPT !.model_path = failed.model_path,
                                         !.engine = failed.engine]

\* C13: a failing model load is no error of the filter.  At creation and in
\* update everything else is done as with a load that succeeds; update
\* holds the engine-state lock only while it runs, so it is released.
C13_LoadFailureNotFatal ==
    /\ [][C13_Step]_vars
    /\ [](C13_Create)
    /\ [](state_lock = "update" => u.pc \notin {"idle", "lock_state"})

\* After an update whose model load failed and which reconfigured, the
\* worker has processed a frame and the callback has returned it.
C13_Witness ==
    /\ state.model_path = "m.onnx"
    /\ state.engine = "unloaded"
    /\ state.resonance_shift = 0
    /\ h.reconfigured
    /\ u.pc = "idle"
    /\ state_lock # "update"
    /\ h.processed >= 1
    /\ h.reported # <<>>

\* Whether the update that is running, or beginning in this step, finds a
\* geometry setting changed.
UpdateRecalculates ==
    IF u.pc = "idle" THEN RecalculateInputBuffer(state, u'.settings)
    ELSE IF u.pc \in {"lock_state", "parked", "body"}
         THEN RecalculateInputBuffer(state, u.settings)
         ELSE u.recalculate

\* C14: no step of an update that finds none of sample_length,
\* crossfade_length, extra_inference_time and model_output_sample_rate
\* changed touches the geometry, the sliding input buffers, the SOLA buffer,
\* the fade windows or any of the three queues.
C14_Step ==
    (u' # u /\ ~UpdateRecalculates) =>
        /\ Reconfigured' = Reconfigured
        /\ state'.sola_buffer = state.sola_buffer
        /\ input' = input
        /\ output' = output
        /\ timestamps' = timestamps

C14_UpdateWithoutRecalculation == [][C14_Step]_vars

\* An update that changed pitch_shift and index_rate only has returned; a
\* frame had been processed and all three queues hold something.
C14_Witness ==
    /\ h.updates = 1
    /\ u.pc = "idle"
    /\ ~h.reconfigured
    /\ state.pitch_shift = 0
    /\ state.index_rate = 50
    /\ h.frames >= 1
    /\ ~RAllZero(state.input_buffer)
    /\ input # <<>>
    /\ output # <<>>
    /\ timestamps # <<>>

\* C15: the two fade windows the state holds, built by create or by
\* update, have the length sola_buffer_frame_size; at every index their
\* elements add up to 1, and the fade-in window never decreases.
C15_FadeWindows ==
    LET n == state.sola_buffer_frame_size
    IN /\ state.fade_in_window.n = n
       /\ state.fade_out_window.n = n
       /\ \A i \in 0 .. (n - 1) :
            WindowValue(state.fade_in_window, i)
              + WindowValue(state.fade_out_window, i) = FadeOne
       /\ \A i \in 0 .. (n - 2) :
            WindowValue(state.fade_in_window, i)
              <= WindowValue(state.fade_in_window, i + 1)

\* Windows of six elements built by update, rising from 0 to 1.
C15_Witness ==
    /\ h.reconfigured
    /\ state.fade_in_window.n = 6
    /\ WindowValue(state.fade_in_window, 0) = 0
    /\ WindowValue(state.fade_in_window, 2) > 0
    /\ WindowValue(state.fade_in_window, 2) < WindowValue(state.fade_in_window, 3)
    /\ WindowValue(state.fade_in_window, 5) = FadeOne
    /\ WindowValue(state.fade_out_window, 5) = 0

\* The worker has a frame in hand: from the drain of the input queue to
\* the end of the push of the result.
WorkerHasFrame == w.pc \in {"process", "lock_output", "push_output"}

\* update is between taking the engine-state lock and dropping it.
UpdateInBody ==
    u.pc \in {"body", "lock_input", "clear_input", "lock_output",
              "clear_output", "unlock"}

\* C16: the worker never has a frame in hand while update reads or writes
\* the geometry and the buffers or clears the queues; each of the two holds
\* the engine-state lock throughout.
C16_MutualExclusion ==
    /\ ~(WorkerHasFrame /\ UpdateInBody)
    /\ WorkerHasFrame => state_lock = "worker"
    /\ UpdateInBody => state_lock = "update"

\* The worker processes a frame while update is parked on the lock, having
\* been called with settings that change the geometry.
C16_Witness ==
    /\ w.pc = "process"
    /\ u.pc = "parked"
    /\ RecalculateInputBuffer(state, u.settings)
    /\ state_lock = "worker"

\* C17: in every reachable state the input block of the downsampler is
\* sample_frame_size and the input block of the upsampler is
\* model_return_size.
C17_ResamplerBlocks ==
    /\ state.downsampler.chunk_size_in = state.sample_frame_size
    /\ state.upsampler.chunk_size_in = state.model_return_size

\* C18: in every reachable state the SOLA buffer and both fade windows
\* have the length sola_buffer_frame_size.
C18_SolaLengths ==
    /\ RLen(state.sola_buffer) = state.sola_buffer_frame_size
    /\ state.fade_in_window.n = state.sola_buffer_frame_size
    /\ state.fade_out_window.n = state.sola_buffer_frame_size

\* What one step of the worker's iteration does to the two queues and to
\* the frame in hand.
C19_Step ==
    /\ (w.pc = "try_lock" /\ w'.pc = "lock_input")
          => /\ state_lock' = "worker"
             /\ w'.sample_frame_size = state.sample_frame_size
    /\ (w.pc = "check_input" /\ w'.pc = "process")
          => /\ Len(input) >= w.sample_frame_size
             /\ w.sample_frame_size = state.sample_frame_size
             /\ w'.input_sample = SeqTake(input, state.sample_frame_size)
             /\ Len(w'.input_sample) = state.sample_frame_size
             /\ input = w'.input_sample \o input'
             /\ output' = output
    /\ (w.pc = "check_input" /\ w'.pc # "process" /\ w' # w)
          => /\ Len(input) < w.sample_frame_size
             /\ input' = input
             /\ output' = output
    /\ (w.pc \in {"cv_wait", "cv_woken"} /\ w' # w)
          => /\ input' = input
             /\ output' = output
    /\ (w.pc = "process" /\ w'.pc = "lock_output")
          => /\ Len(w.input_sample) = state.sample_frame_size
             /\ RLen(state.input_buffer) >= state.sample_frame_size
             /\ state'.sample_frame_size = state.sample_frame_size
             /\ Len(w'.output_frame) = state.sample_frame_size
             /\ input' = input
             /\ output' = output
    /\ (w.pc = "push_output" /\ w'.pc = "loop")
          => /\ Len(w.output_frame) = state.sample_frame_size
             /\ Len(output') = Len(output) + state.sample_frame_size
             /\ SeqTake(output', Len(output)) = output
             /\ input' = input

InputBufferSize(st) ==
    st.extra_frame_size + st.crossfade_frame_size
        + st.sola_search_frame_size + st.sample_frame_size

\* The last n elements of a sequence of at least n.
LastN(q, n) == SubSeq(q, Len(q) - n + 1, Len(q))

\* N zeros followed by the frames slid in since the geometry was computed.
C20_Fed == [i \in 1..InputBufferSize(state) |-> 0] \o h.slid

\* C20: the sliding input buffer, of length N = extra_frame_size +
\* crossfade_frame_size + sola_search_frame_size + sample_frame_size, holds
\* the last N samples of N zeros followed by the frames processed since
\* creation or the last reconfiguration, in their order; these frames have
\* sample_frame_size samples each, and no step that leaves the geometry
\* alone changes the buffer's length.
C20_SlidingWindow ==
    /\ [](/\ RLen(state.input_buffer) = InputBufferSize(state)
          /\ RToSeq(state.input_buffer) = LastN(C20_Fed, InputBufferSize(state))
          /\ Len(h.slid) \in { h.processed * state.sample_frame_size,
                               (h.processed + 1) * state.sample_frame_size }
          /\ (w.pc # "panicked" =>
                  Len(h.slid) = h.processed * state.sample_frame_size))
    /\ [][StoredGeometry' = StoredGeometry =>
              RLen(state'.input_buffer) = RLen(state.input_buffer)]_vars

\* After a reconfiguration more samples were slid in than the buffer
\* holds: the oldest frame has left it and no zero of the start is left.
C20_Witness ==
    /\ h.reconfigured
    /\ h.processed >= 3
    /\ Len(h.slid) > InputBufferSize(state)
    /\ \A i \in 1..InputBufferSize(state) : RToSeq(state.input_buffer)[i] # 0

\* C21: where process_one_frame is about to run, for every SOLA offset of
\* the search window the emitted range [o, o + sample_frame_size) and the
\* range of the new SOLA buffer, the sola_buffer_frame_size samples after
\* it, lie inside the output buffer, which has room for sample_frame_size +
\* sola_buffer_frame_size + sola_search_frame_size samples.
C21_SliceRangesInside ==
    w.pc = "process" =>
        /\ RLen(state.output_buffer) >=
               state.sample_frame_size + state.sola_buffer_frame_size
                   + state.sola_search_frame_size
        /\ \A o \in SolaOffsets(state) :
               /\ o + state.sample_frame_size <= RLen(state.output_buffer)
               /\ o + state.sample_frame_size + state.sola_buffer_frame_size
                      <= RLen(state.output_buffer)

\* The most samples the input queue ever receives: the longest frame at
\* every call.
MaxInputSamples ==
    MaxCalls * (CHOOSE n \in FrameLens : \A m \in FrameLens : m <= n)

\* The input queue holds a frame, the filter lives and the geometry is the
\* one of create.
C22_FrameWaiting ==
    /\ running
    /\ ~h.reconfigured
    /\ Len(input) >= state.sample_frame_size

\* C22: under fair scheduling, whenever the input queue holds at least
\* sample_frame_size samples, then, unless the liveness flag is cleared or
\* a reconfiguration occurs, the worker drains a frame and appends its
\* sample_frame_size samples to the output queue: more samples get pushed
\* to the output than had been drained at that moment.
C22_WorkerProgress ==
    \A k \in 0..MaxInputSamples :
        (C22_FrameWaiting /\ Len(h.in_drained) = k)
            ~> (\/ ~running
                \/ h.reconfigured
                \/ /\ Len(h.in_drained) >= k + state.sample_frame_size
                   /\ Len(h.out_pushed) >= k + state.sample_frame_size)

\* The worker went to wait on the condition variable with too few samples
\* and, the frame being complete later, drained and pushed it: all that was
\* pushed to the input has come out, and the worker waits again.
C22_Witness ==
    /\ running
    /\ ~h.reconfigured
    /\ state.sample_frame_size = 3
    /\ Len(h.in_drained) = 3
    /\ Len(h.out_pushed) = 3
    /\ w.pc = "cv_wait"

\* While update is parked on the engine-state lock the worker does not
\* take the lock anew, and where the worker gives up the lock it holds,
\* the lock goes to update.
C23_Step ==
    (u.pc = "parked" /\ u'.pc = "parked")
        => /\ ~(state_lock # "worker" /\ state_lock' = "worker")
           /\ (state_lock = "worker" /\ state_lock' # "worker")
                  => state_lock' = "update"

\* C23: under fair scheduling a call to update gets the engine-state lock
\* and returns, although the worker takes the lock with try_lock in a loop
\* and keeps it while it waits on the condition variable: once update is
\* parked on the lock, the worker's next unlock, after one frame or one
\* bounded wait, hands the lock to it.
C23_UpdateCompletes ==
    /\ (u.pc = "lock_state") ~> (state_lock = "update")
    /\ (u.pc # "idle") ~> (u.pc = "idle")
    /\ [][C23_Step]_vars

\* update was parked while the worker waited on the condition variable with
\* the lock; the wait timed out and the unlock handed the lock to update.
C23_Witness ==
    /\ u.pc = "parked"
    /\ state_lock = "update"
    /\ w.pc = "loop"
    /\ w.timed_out
    /\ running

\* The three threads that take locks.
Actors == {"callback", "worker", "update"}

\* The holder of a lock, if it is another one than the thread asking.
HeldByOther(lock, by) == IF lock \in {"free", by} THEN "none" ELSE lock

\* The thread that holds the lock a thread is blocked on, "none" where the
\* thread is not at a lock call or the lock is free.  The callback takes
\* input then timestamps (lines 500-501) and output then timestamps (lines
\* 509, 518); the worker engine-state (line 615), then input (line 629,
\* and again when the wait of line 633 ends), then output (line 640);
\* update engine-state (line 350), then input (line 476), then output
\* (line 480).
WaitsFor ==
    [ t \in Actors \cup {"none"} |->
        CASE t = "callback" ->
               IF cb.pc = "lock_input"
               THEN IF input_lock # "free"
                    THEN HeldByOther(input_lock, "callback")
                    ELSE HeldByOther(timestamps_lock, "callback")
               ELSE IF cb.pc = "lock_output"
               THEN HeldByOther(output_lock, "callback")
               ELSE IF cb.pc = "check_output"
                       /\ ~OutputInsufficient(output, cb.frame_len)
               THEN HeldByOther(timestamps_lock, "callback")
               ELSE "none"
          [] t = "worker" ->
               IF w.pc \in {"start", "start_parked"}
               THEN HeldByOther(state_lock, "worker")
               ELSE IF w.pc \in {"lock_input", "cv_woken"}
               THEN HeldByOther(input_lock, "worker")
               ELSE IF w.pc = "lock_output"
               THEN HeldByOther(output_lock, "worker")
               ELSE "none"
          [] t = "update" ->
               IF u.pc \in {"lock_state", "parked"}
               THEN HeldByOther(state_lock, "update")
               ELSE IF u.pc = "lock_input"
               THEN HeldByOther(input_lock, "update")
               ELSE IF u.pc = "lock_output"
               THEN HeldByOther(output_lock, "update")
               ELSE "none"
          [] OTHER -> "none" ]

\* The threads that are inside filter_audio, thread_loop or update.
InProgress ==
    { t \in Actors :
        \/ t = "callback" /\ cb.pc # "idle"
        \/ t = "worker" /\ w.pc \notin {"none", "exited", "panicked"}
        \/ t = "update" /\ u.pc # "idle" }

\* The locks a thread holds are locks of a thread in progress.
HoldersInProgress ==
    \A lock \in {state_lock, input_lock, output_lock, timestamps_lock} :
        lock = "free" \/ lock \in InProgress

\* C24: no thread waits for a lock in a cycle (nor for a lock it holds
\* itself), every lock is held by a thread that is still running, and
\* where threads are running, one of them is not blocked on a lock: no
\* reachable state is a deadlock.
C24_DeadlockFree ==
    /\ \A t \in Actors :
          /\ WaitsFor[t] # t
          /\ WaitsFor[WaitsFor[t]] # t
          /\ WaitsFor[WaitsFor[WaitsFor[t]]] # t
    /\ HoldersInProgress
    /\ InProgress # {} => \E t \in InProgress : WaitsFor[t] = "none"

\* Two threads are blocked at once: update on the engine-state lock the
\* worker holds, the worker on the input lock the callback holds.
C24_Witness ==
    /\ WaitsFor["update"] = "worker"
    /\ WaitsFor["worker"] = "callback"
    /\ WaitsFor["callback"] = "none"

\* C25: in every reachable state the geometry and the lengths of the two
\* sliding buffers are the reference geometry of the stored sample_rate,
\* the stored model_output_sample_rate and the stored durations, and the
\* host-rate sizes are multiples of the stored sample_rate / 100.
C25_GeometryOfStoredRate ==
    LET zc == state.sample_rate \div 100
        g == StoredGeometry
    IN /\ g = RefGeometry(state.sample_rate, state.model_output_sample_rate,
                          state.sample_length, state.crossfade_length,
                          state.extra_inference_time)
       /\ \A size \in { g.sample_frame_size, g.crossfade_frame_size,
                       g.sola_buffer_frame_size, g.sola_search_frame_size,
                       g.extra_frame_size, g.input_buffer_size } :
            size % zc = 0

====
